---- MODULE Spec2Model ----
(***************************************************************************)
(* Model of the two demo scripts of the repository:                        *)
(*   - test.py: SCD Type 1 reconciliation of a source relation into a      *)
(*     target relation (full_replace and column_level modes);              *)
(*   - scripts/utils.py and scripts/ingest.py: audit columns, staging      *)
(*     load and the record_hash MERGE into the gold table.                 *)
(*                                                                         *)
(* A relation (Spark DataFrame) is a record [cols, rows]: cols is the set  *)
(* of column names, rows a bag of rows, each row a function from cols to   *)
(* values.  SQL NULL is the value Null; the join conditions are SQL        *)
(* equality, which is never true when one of its operands is NULL.         *)
(***************************************************************************)
EXTENDS Bags, FiniteSets, Integers, Sequences, TLC

VARIABLES
  source,                  \* src_df handed to the merge
  target,                  \* tgt_df handed to the merge
  key_cols,                \* sequence of key column names
  update_cols,             \* set of columns to update; {} models None / empty list
  prefer_source_when_null, \* policy flag of the column-level merge
  pc,                      \* position in the merge routine
  src_keys,                \* full_replace: distinct source keys
  unchanged_target,        \* full_replace: rows of the left anti join
  data_cols,               \* column_level: data columns selected
  joined,                  \* column_level: rows of the full outer join
  result,                  \* out_df
  first,                   \* result of the first application (re-application run)
  round,                   \* 1 = first application, 2 = re-application
  mode,                    \* args.mode: "full_replace" or "column_level"
  df,                      \* add_audit_columns: the input frame
  source_file,             \* add_audit_columns: the source_file argument
  out,                     \* add_audit_columns: the returned frame
  apc,                     \* add_audit_columns: "call" or "returned"
  csv_dir,                 \* ingest: files of data/raw/csv (name -> frame read from it)
  json_dir,                \* ingest: files of data/raw/json
  stg_table,               \* ingest: rows of stg_table (a bag)
  gold_table,              \* ingest: rows of gold_table (a bag)
  csv_files,               \* ingest main(): csv files still to load
  json_files,              \* ingest main(): json files still to load
  ipc,                     \* ingest main(): "idle", "load" or "merge"
  runs,                    \* ingest: number of runs started
  now                      \* the clock read by datetime.utcnow()

scdVars == <<source, target, key_cols, update_cols, prefer_source_when_null, pc,
             src_keys, unchanged_target, data_cols, joined, result, first, round, mode>>

auditVars == <<df, source_file, out, apc>>

ingestVars == <<csv_dir, json_dir, stg_table, gold_table, csv_files, json_files, ipc, runs>>

vars == <<scdVars, auditVars, ingestVars, now>>

----------------------------------------------------------------------------
(* Bounds and value domains                                                *)

MaxRows == 3

MaxFrameRows == 2

MaxFileRows == 2

MaxRuns == 2

Null == "NULL"

KeyColsOptions == {<<"id">>, <<"id", "grp">>}

DataColumns == {"name", "state"}

UpdateColsOptions == {{}, {"name"}}

\* Data columns of <<source, target>>: equal schemas, or state missing on one side.
SchemaOptions == {<<DataColumns, DataColumns>>, <<DataColumns, {"name"}>>, <<{"name"}, DataColumns>>}

AllValues == {Null, "1", "2", "Bob", "Bobby", "CA", "NY"}

\* The id values: two matchable ids under the single-column key, one under the
\* two-column key (where the NULL patterns of the key are what matters).
IdDomain(keys) == IF Len(keys) = 1 THEN {Null, "1", "2"} ELSE {Null, "1"}

SourceDomain(c, keys) ==
  CASE c = "id"    -> IdDomain(keys)
    [] c = "grp"   -> {Null, "1"}
    [] c = "name"  -> {Null, "Bobby"}
    [] c = "state" -> {Null, "NY"}

TargetDomain(c, keys) ==
  CASE c = "id"    -> IdDomain(keys)
    [] c = "grp"   -> {Null, "1"}
    [] c = "name"  -> {Null, "Bob"}
    [] c = "state" -> {Null, "CA"}

SourceRows(cols, keys) ==
  {r \in [cols -> AllValues] : \A c \in cols : r[c] \in SourceDomain(c, keys)}

TargetRows(cols, keys) ==
  {r \in [cols -> AllValues] : \A c \in cols : r[c] \in TargetDomain(c, keys)}

RECURSIVE BagsUpTo(_, _)
BagsUpTo(S, n) ==
  IF n = 0 THEN {EmptyBag}
  ELSE LET B == BagsUpTo(S, n - 1)
       IN  B \cup {b (+) SetToBag({r}) : b \in B, r \in S}

Range(seq) == {seq[i] : i \in DOMAIN seq}

----------------------------------------------------------------------------
(* Relational helpers (Spark DataFrame operations used by test.py)         *)

RECURSIVE SumCopies(_, _)
SumCopies(S, B) ==
  IF S = {} THEN 0
  ELSE LET x == CHOOSE y \in S : TRUE
       IN  B[x] + SumCopies(S \ {x}, B)

\* The bag of f[x] for x in B (f a function on the elements of B), the
\* multiplicities added up.
BagImage(f, B) ==
  [y \in {f[x] : x \in DOMAIN B} |-> SumCopies({x \in DOMAIN B : f[x] = y}, B)]

\* The elements of B that are in S, with their multiplicities.
BagRestrict(B, S) == [x \in S \cap DOMAIN B |-> B[x]]

KeyOf(row, keys) == [i \in DOMAIN keys |-> row[keys[i]]]

\* SQL equality of two key tuples: NULL equals nothing, itself included.
SqlKeyEq(a, b) == \A i \in DOMAIN a : a[i] # Null /\ b[i] # Null /\ a[i] = b[i]

NullRow(cols) == [c \in cols |-> Null]

Coalesce(a, b) == IF a # Null THEN a ELSE b

\* source.select(*key_cols).distinct()
DistinctKeys(rel, keys) == {KeyOf(r, keys) : r \in DOMAIN rel.rows}

\* Variant: the keys compared with the NULL-safe equality (<=>).
LeftAntiJoinNullSafe(rel, keys, keySet) ==
  [cols |-> rel.cols,
   rows |-> BagRestrict(rel.rows, {r \in DOMAIN rel.rows : KeyOf(r, keys) \notin keySet})]

\* Variant: how="left_semi", the matching rows kept instead of dropped.
LeftSemiJoin(rel, keys, keySet) ==
  [cols |-> rel.cols,
   rows |-> BagRestrict(rel.rows, {r \in DOMAIN rel.rows :
                                     \E k \in keySet : SqlKeyEq(KeyOf(r, keys), k)})]

\* target.join(src_keys, on=key_cols, how="left_anti")
LeftAntiJoin(rel, keys, keySet) ==
  [cols |-> rel.cols,
   rows |-> BagRestrict(rel.rows, {r \in DOMAIN rel.rows :
                                     ~ \E k \in keySet : SqlKeyEq(KeyOf(r, keys), k)})]

\* a.unionByName(b, allowMissingColumns=True)
UnionByName(a, b) ==
  LET cols == a.cols \cup b.cols
      Pad(r) == [c \in cols |-> IF c \in DOMAIN r THEN r[c] ELSE Null]
      PadAll(B) == BagImage([r \in DOMAIN B |-> Pad(r)], B)
  IN  [cols |-> cols, rows |-> PadAll(a.rows) (+) PadAll(b.rows)]

\* Variant: how="left", the source rows without a target row dropped.
LeftOuterJoin(t, s, keys) ==
  LET Match(tr, sr) == SqlKeyEq(KeyOf(tr, keys), KeyOf(sr, keys))
      matched == {p \in [t : DOMAIN t.rows, s : DOMAIN s.rows] : Match(p.t, p.s)}
      onlyT   == {tr \in DOMAIN t.rows : ~ \E sr \in DOMAIN s.rows : Match(tr, sr)}
  IN  [p \in matched |-> t.rows[p.t] * s.rows[p.s]]
        (+) [p \in {[t |-> tr, s |-> NullRow(s.cols)] : tr \in onlyT} |-> t.rows[p.t]]

\* t.join(s, on=key_cols, how="fullouter"): one joined row per matching pair,
\* the unmatched rows of either side padded with NULLs on the other side.
FullOuterJoin(t, s, keys) ==
  LET Match(tr, sr) == SqlKeyEq(KeyOf(tr, keys), KeyOf(sr, keys))
      matched == {p \in [t : DOMAIN t.rows, s : DOMAIN s.rows] : Match(p.t, p.s)}
      onlyT   == {tr \in DOMAIN t.rows : ~ \E sr \in DOMAIN s.rows : Match(tr, sr)}
      onlyS   == {sr \in DOMAIN s.rows : ~ \E tr \in DOMAIN t.rows : Match(tr, sr)}
  IN  [p \in matched |-> t.rows[p.t] * s.rows[p.s]]
        (+) [p \in {[t |-> tr, s |-> NullRow(s.cols)] : tr \in onlyT} |-> t.rows[p.t]]
        (+) [p \in {[t |-> NullRow(t.cols), s |-> sr] : sr \in onlyS} |-> s.rows[p.s]]

----------------------------------------------------------------------------
(* Pieces of scd_type1_column_level                                        *)

\* all_cols / data_cols; "if update_cols:" is false for None and for [].
DataColsOf(src, tgt, keys, ucols) ==
  LET all_cols == tgt.cols \cup src.cols
      dcols    == {c \in all_cols : c \notin Range(keys)}
  IN  IF ucols # {} THEN {c \in dcols : c \in ucols} ELSE dcols

\* Variant: the default policy coalescing in the other order (target first).
ChosenTargetFirst(p, c, keys, prefer) ==
  IF prefer
  THEN IF p.s[keys[1]] # Null THEN p.s[c] ELSE p.t[c]
  ELSE IF p.t[c] # Null THEN p.t[c] ELSE p.s[c]

\* The value chosen for data column c of the joined row p.
Chosen(p, c, keys, prefer) ==
  IF prefer
  THEN IF p.s[keys[1]] # Null THEN p.s[c] ELSE p.t[c]
  ELSE IF p.s[c] # Null THEN p.s[c] ELSE p.t[c]

SelectRow(p, keys, dcols, prefer) ==
  [c \in Range(keys) \cup dcols |->
     IF c \in Range(keys) THEN Coalesce(p.s[c], p.t[c])
     ELSE Chosen(p, c, keys, prefer)]

\* F.col("s.c") and F.col("t.c") resolve only if c is a column of that side;
\* otherwise joined.select raises AnalysisException.
Resolvable(dcols, src, tgt) == dcols \subseteq (src.cols \cap tgt.cols)

EmptyRelation == [cols |-> {}, rows |-> EmptyBag]

----------------------------------------------------------------------------
(* pandas frames (scripts/utils.py, scripts/ingest.py)                     *)
(*                                                                         *)
(* A frame is [cols, rows]: cols the sequence of column names, rows the    *)
(* sequence of rows, each a function from the column names to values.  A   *)
(* value is [ty, s]: its Python type and the text str() gives for it.      *)

PyStr(s) == [ty |-> "str", s |-> s]

NaN == [ty |-> "float", s |-> "nan"]

PyValues == {PyStr("x"), PyStr("nan"), NaN}

FrameColsOptions == {<<"a">>, <<"a", "b">>, <<"a", "source_file">>}

SourceFileOptions == {"file.csv", "x"}

Frames(colsSet, maxRows) ==
  UNION {{[cols |-> cs, rows |-> rs] : rs \in [1..n -> [Range(cs) -> PyValues]]}
           : <<cs, n>> \in colsSet \X (0..maxRows)}

EmptyFrame == [cols |-> <<>>, rows |-> <<>>]

\* str(x)
Str(x) == x.s

RECURSIVE JoinStr(_, _)
\* sep.join(parts)
JoinStr(parts, sep) ==
  IF Len(parts) = 0 THEN ""
  ELSE IF Len(parts) = 1 THEN parts[1]
  ELSE parts[1] \o sep \o JoinStr(Tail(parts), sep)

\* hashlib.sha256(concat).hexdigest(); SHA-256 is taken to be collision free,
\* so the digest is represented by the text that was hashed.
Sha256Hex(text) == "sha256:" \o text

\* row_hash / record_hash: the values of the row in column order, str() of each,
\* joined with "|".
record_hash(cols, row) ==
  Sha256Hex(JoinStr([i \in DOMAIN cols |-> Str(row[cols[i]])], "|"))

\* datetime.utcnow().isoformat(), for the clock value t.
IsoFormat(t) == "T" \o ToString(t)

\* Variant: an existing column of that name is left as it is.
SetColumnIfAbsent(f, c, vals) ==
  IF c \in Range(f.cols) THEN f
  ELSE [cols |-> Append(f.cols, c),
        rows |-> [i \in DOMAIN f.rows |->
                    [k \in DOMAIN f.rows[i] \cup {c} |->
                       IF k = c THEN vals[i] ELSE f.rows[i][k]]]]

\* df[c] = vals: an existing column is overwritten in place, a new one appended.
SetColumn(f, c, vals) ==
  [cols |-> IF c \in Range(f.cols) THEN f.cols ELSE Append(f.cols, c),
   rows |-> [i \in DOMAIN f.rows |->
               [k \in DOMAIN f.rows[i] \cup {c} |->
                  IF k = c THEN vals[i] ELSE f.rows[i][k]]]]

\* The three audit columns, as utils.add_audit_columns and the two loaders of
\* ingest.py add them; t is the clock value utcnow() returned.
add_audit_columns(f, name, t) ==
  LET f1 == SetColumn(f, "ingest_ts", [i \in DOMAIN f.rows |-> PyStr(IsoFormat(t))])
      f2 == SetColumn(f1, "source_file", [i \in DOMAIN f.rows |-> PyStr(name)])
  IN  SetColumn(f2, "record_hash",
                [i \in DOMAIN f2.rows |-> PyStr(record_hash(f2.cols, f2.rows[i]))])

AuditColumns == {"ingest_ts", "source_file", "record_hash"}

\* json text of one value (to_json)
JsonOf(x) ==
  IF x.ty = "float" /\ x.s = "nan" THEN "null" ELSE "\"" \o x.s \o "\""

RECURSIVE SeqFilter(_, _)
SeqFilter(seq, S) ==
  IF Len(seq) = 0 THEN <<>>
  ELSE IF seq[1] \in S THEN <<seq[1]>> \o SeqFilter(Tail(seq), S)
  ELSE SeqFilter(Tail(seq), S)

\* row.drop(['ingest_ts','source_file','record_hash']).to_json(orient='records')
RowJson(cols, row) ==
  LET kept == SeqFilter(cols, Range(cols) \ AuditColumns)
  IN  "[" \o JoinStr([i \in DOMAIN kept |-> JsonOf(row[kept[i]])], ",") \o "]"

\* The rows one loader INSERTs into stg_table for the file `name`, as a bag.
StagedRows(f, name, t) ==
  LET a == add_audit_columns(f, name, t)
      Staged(i) == [data        |-> RowJson(a.cols, a.rows[i]),
                    ingest_ts   |-> Str(a.rows[i]["ingest_ts"]),
                    source_file |-> Str(a.rows[i]["source_file"]),
                    record_hash |-> Str(a.rows[i]["record_hash"])]
      idx == DOMAIN a.rows
  IN  [r \in {Staged(i) : i \in idx} |-> Cardinality({i \in idx : Staged(i) = r})]

\* MERGE INTO gold g USING stg s ON g.record_hash = s.record_hash
\* WHEN NOT MATCHED THEN INSERT: every staging row that matches no row of gold
\* as it was before the statement is inserted.
MergeNotMatched(gold, stg) ==
  gold (+) BagRestrict(stg, {r \in DOMAIN stg :
                              ~ \E g \in DOMAIN gold : g.record_hash = r.record_hash})

AuditIdle ==
  /\ df = EmptyFrame
  /\ source_file = ""
  /\ out = EmptyFrame
  /\ apc = "idle"

IngestIdle ==
  /\ csv_dir = <<>>
  /\ json_dir = <<>>
  /\ stg_table = EmptyBag
  /\ gold_table = EmptyBag
  /\ csv_files = {}
  /\ json_files = {}
  /\ ipc = "off"
  /\ runs = 0

----------------------------------------------------------------------------
(* The merge as a state machine                                            *)

InitInputs(m) ==
  \E keys \in KeyColsOptions, sch \in SchemaOptions, n \in 0..MaxRows :
    \E sb \in BagsUpTo(SourceRows(Range(keys) \cup sch[1], keys), n),
       tb \in BagsUpTo(TargetRows(Range(keys) \cup sch[2], keys), MaxRows - n) :
      /\ key_cols = keys
      /\ source = [cols |-> Range(keys) \cup sch[1], rows |-> sb]
      /\ target = [cols |-> Range(keys) \cup sch[2], rows |-> tb]
      /\ mode = m
      /\ pc = "start"
      /\ src_keys = {}
      /\ unchanged_target = EmptyRelation
      /\ data_cols = {}
      /\ joined = EmptyBag
      /\ result = EmptyRelation
      /\ first = EmptyRelation
      /\ round = 1

InitFullReplace ==
  /\ InitInputs("full_replace")
  /\ AuditIdle /\ IngestIdle /\ now = 0
  /\ update_cols = {}
  /\ prefer_source_when_null = FALSE

InitColumnLevel ==
  /\ InitInputs("column_level")
  /\ AuditIdle /\ IngestIdle /\ now = 0
  /\ update_cols \in UpdateColsOptions
  /\ prefer_source_when_null \in BOOLEAN

\* test.py:33
SrcKeysStep ==
  /\ mode = "full_replace" /\ pc = "start"
  /\ src_keys' = DistinctKeys(source, key_cols)
  /\ pc' = "anti"
  /\ UNCHANGED <<source, target, key_cols, update_cols, prefer_source_when_null,
                 unchanged_target, data_cols, joined, result, first, round, mode>>
  /\ UNCHANGED <<auditVars, ingestVars, now>>

\* test.py:35
AntiJoinStep ==
  /\ mode = "full_replace" /\ pc = "anti"
  /\ unchanged_target' = LeftAntiJoin(target, key_cols, src_keys)
  /\ pc' = "union"
  /\ UNCHANGED <<source, target, key_cols, update_cols, prefer_source_when_null,
                 src_keys, data_cols, joined, result, first, round, mode>>
  /\ UNCHANGED <<auditVars, ingestVars, now>>

\* test.py:37-38
UnionStep ==
  /\ mode = "full_replace" /\ pc = "union"
  /\ result' = UnionByName(source, unchanged_target)
  /\ pc' = "done"
  /\ UNCHANGED <<source, target, key_cols, update_cols, prefer_source_when_null,
                 src_keys, unchanged_target, data_cols, joined, first, round, mode>>
  /\ UNCHANGED <<auditVars, ingestVars, now>>

\* The output of the first application handed back as the new target.
Reapply ==
  /\ mode = "full_replace" /\ pc = "done" /\ round = 1
  /\ first' = result
  /\ target' = result
  /\ round' = 2
  /\ pc' = "start"
  /\ src_keys' = {}
  /\ unchanged_target' = EmptyRelation
  /\ result' = EmptyRelation
  /\ UNCHANGED <<source, key_cols, update_cols, prefer_source_when_null,
                 data_cols, joined, mode>>
  /\ UNCHANGED <<auditVars, ingestVars, now>>

\* test.py:58-62
DataColsStep ==
  /\ mode = "column_level" /\ pc = "start"
  /\ data_cols' = DataColsOf(source, target, key_cols, update_cols)
  /\ pc' = "join"
  /\ UNCHANGED <<source, target, key_cols, update_cols, prefer_source_when_null,
                 src_keys, unchanged_target, joined, result, first, round, mode>>
  /\ UNCHANGED <<auditVars, ingestVars, now>>

\* test.py:65-69
JoinStep ==
  /\ mode = "column_level" /\ pc = "join"
  /\ joined' = FullOuterJoin(target, source, key_cols)
  /\ pc' = "select"
  /\ UNCHANGED <<source, target, key_cols, update_cols, prefer_source_when_null,
                 src_keys, unchanged_target, data_cols, result, first, round, mode>>
  /\ UNCHANGED <<auditVars, ingestVars, now>>

\* test.py:72-93
SelectStep ==
  /\ mode = "column_level" /\ pc = "select"
  /\ IF Resolvable(data_cols, source, target)
     THEN /\ result' = [cols |-> Range(key_cols) \cup data_cols,
                        rows |-> BagImage([p \in DOMAIN joined |->
                                             SelectRow(p, key_cols, data_cols,
                                                       prefer_source_when_null)],
                                          joined)]
          /\ pc' = "done"
     ELSE /\ result' = EmptyRelation
          /\ pc' = "failed"
  /\ UNCHANGED <<source, target, key_cols, update_cols, prefer_source_when_null,
                 src_keys, unchanged_target, data_cols, joined, first, round, mode>>
  /\ UNCHANGED <<auditVars, ingestVars, now>>

NextFullReplace == SrcKeysStep \/ AntiJoinStep \/ UnionStep \/ Reapply

NextColumnLevel == DataColsStep \/ JoinStep \/ SelectStep

SpecFullReplace == InitFullReplace /\ [][NextFullReplace]_vars

SpecColumnLevel == InitColumnLevel /\ [][NextColumnLevel]_vars

ScdIdle ==
  /\ source = EmptyRelation
  /\ target = EmptyRelation
  /\ key_cols = <<>>
  /\ update_cols = {}
  /\ prefer_source_when_null = FALSE
  /\ pc = "off"
  /\ src_keys = {}
  /\ unchanged_target = EmptyRelation
  /\ data_cols = {}
  /\ joined = EmptyBag
  /\ result = EmptyRelation
  /\ first = EmptyRelation
  /\ round = 1
  /\ mode = "none"

----------------------------------------------------------------------------
(* utils.add_audit_columns as a state machine                              *)

InitAudit ==
  /\ ScdIdle /\ IngestIdle
  /\ df \in Frames(FrameColsOptions, MaxFrameRows)
  /\ source_file \in SourceFileOptions
  /\ out = EmptyFrame
  /\ apc = "call"
  /\ now \in 0..1

\* scripts/utils.py:6-17
AddAuditColumns ==
  /\ apc = "call"
  /\ out' = add_audit_columns(df, source_file, now)
  /\ apc' = "returned"
  /\ UNCHANGED <<df, source_file, now, scdVars, ingestVars>>

NextAudit == AddAuditColumns

SpecAudit == InitAudit /\ [][NextAudit]_vars

----------------------------------------------------------------------------
(* ingest.py main() as a state machine                                     *)

DirOptions(name) ==
  {<<>>} \cup {[n \in {name} |-> f] : f \in Frames({<<"a">>}, MaxFileRows)}

InitIngest ==
  /\ ScdIdle /\ AuditIdle
  /\ csv_dir \in DirOptions("a.csv")
  /\ json_dir \in DirOptions("b.json")
  /\ stg_table = EmptyBag
  /\ gold_table = EmptyBag
  /\ csv_files = {}
  /\ json_files = {}
  /\ ipc = "idle"
  /\ runs = 0
  /\ now = 0

\* ingest.py:140-144: a run starts and globs the two directories.
StartRun ==
  /\ ipc = "idle" /\ runs < MaxRuns
  /\ runs' = runs + 1
  /\ csv_files' = DOMAIN csv_dir
  /\ json_files' = DOMAIN json_dir
  /\ ipc' = "load"
  /\ UNCHANGED <<csv_dir, json_dir, stg_table, gold_table, now, scdVars, auditVars>>

\* ingest.py:145-146, 74-95: load_csv_to_staging of one csv file.  The clock
\* does not go back between two reads and may show the same value twice.
LoadCsvToStaging ==
  /\ ipc = "load"
  /\ \E f \in csv_files, t \in {now, now + 1} :
       /\ now' = t
       /\ stg_table' = stg_table (+) StagedRows(csv_dir[f], f, t)
       /\ csv_files' = csv_files \ {f}
  /\ UNCHANGED <<csv_dir, json_dir, gold_table, json_files, ipc, runs, scdVars, auditVars>>

\* ingest.py:147-148, 98-121: load_json_to_staging of one json file, after the
\* csv files.
LoadJsonToStaging ==
  /\ ipc = "load" /\ csv_files = {}
  /\ \E f \in json_files, t \in {now, now + 1} :
       /\ now' = t
       /\ stg_table' = stg_table (+) StagedRows(json_dir[f], f, t)
       /\ json_files' = json_files \ {f}
  /\ UNCHANGED <<csv_dir, json_dir, gold_table, csv_files, ipc, runs, scdVars, auditVars>>

\* ingest.py:149, 124-136: merge_to_gold, then the run ends.
MergeToGold ==
  /\ ipc = "load" /\ csv_files = {} /\ json_files = {}
  /\ gold_table' = MergeNotMatched(gold_table, stg_table)
  /\ ipc' = "idle"
  /\ UNCHANGED <<csv_dir, json_dir, stg_table, csv_files, json_files, runs, now,
                 scdVars, auditVars>>

NextIngest == StartRun \/ LoadCsvToStaging \/ LoadJsonToStaging \/ MergeToGold

SpecIngest == InitIngest /\ [][NextIngest]_vars

----------------------------------------------------------------------------
(* Vocabulary of the properties                                            *)

HasNull(kc) == \E i \in DOMAIN kc : kc[i] = Null

\* Number of rows of rel (with multiplicity) whose key combination is kc.
CountKey(rel, kc) ==
  SumCopies({r \in DOMAIN rel.rows : KeyOf(r, key_cols) = kc}, rel.rows)

KeysIn(rel) == {KeyOf(r, key_cols) : r \in DOMAIN rel.rows}

\* Number of rows of rel that carry the values of row t on t's columns and
\* NULL on the other columns.
CountRow(rel, t) ==
  SumCopies({r \in DOMAIN rel.rows :
               /\ \A c \in DOMAIN t : c \in DOMAIN r /\ r[c] = t[c]
               /\ \A c \in DOMAIN r \ DOMAIN t : r[c] = Null},
            rel.rows)

UniqueKeys(rel) == \A kc \in KeysIn(rel) : CountKey(rel, kc) = 1

\* s and t carry the same key and the key has no NULL: the rows the join pairs.
Paired(s, t) == \A i \in DOMAIN key_cols :
                  s[key_cols[i]] # Null /\ s[key_cols[i]] = t[key_cols[i]]

HasPartner(r, rel) == \E q \in DOMAIN rel.rows : Paired(r, q)

FullDone == mode = "full_replace" /\ pc = "done" /\ round = 1

ColDone == mode = "column_level" /\ pc = "done"

----------------------------------------------------------------------------
(* C1 as stated: every key combination of source appears in the result as   *)
(* many times as in source; every key combination of target that is absent *)
(* from source appears exactly once, with the target's values; a key       *)
(* combination absent from both inputs never appears.                      *)
C1_AsStated ==
  FullDone =>
    /\ \A kc \in KeysIn(source) : CountKey(result, kc) = CountKey(source, kc)
    /\ \A kc \in KeysIn(target) \ KeysIn(source) :
         /\ CountKey(result, kc) = 1
         /\ \A t \in DOMAIN target.rows :
              KeyOf(t, key_cols) = kc => CountRow(result, t) >= 1
    /\ KeysIn(result) \subseteq KeysIn(source) \cup KeysIn(target)

(* C1 amended: every key combination of source appears in the result as     *)
(* many times as in source, plus, when it contains a NULL, as many times   *)
(* as in target; every key combination of target absent from source        *)
(* appears as many times as in target; every target row whose key is       *)
(* absent from source or contains a NULL is in the result with its         *)
(* original values, as often as in target; no other key appears.           *)
C1_FullReplaceCounts ==
  FullDone =>
    /\ \A kc \in KeysIn(source) :
         CountKey(result, kc) =
           CountKey(source, kc) + (IF HasNull(kc) THEN CountKey(target, kc) ELSE 0)
    /\ \A kc \in KeysIn(target) \ KeysIn(source) :
         CountKey(result, kc) = CountKey(target, kc)
    /\ \A t \in DOMAIN target.rows :
         (HasNull(KeyOf(t, key_cols)) \/ KeyOf(t, key_cols) \notin KeysIn(source))
           => CountRow(result, t) >= target.rows[t]
    /\ KeysIn(result) \subseteq KeysIn(source) \cup KeysIn(target)

\* A source with a duplicated key, a target row replaced and a target row kept.
C1_Witness ==
  /\ FullDone
  /\ \E kc \in KeysIn(source) :
       ~ HasNull(kc) /\ CountKey(source, kc) = 2 /\ CountKey(result, kc) = 2
  /\ \E kc \in KeysIn(target) \ KeysIn(source) :
       ~ HasNull(kc) /\ CountKey(result, kc) = 1

----------------------------------------------------------------------------
(* C7 as stated: applying full-replace again, with its own output as the    *)
(* new target, gives the same collection of rows.                          *)
C7_AsStated ==
  (mode = "full_replace" /\ pc = "done" /\ round = 2) => result = first

(* C7 amended: applying full-replace again, with its own output as the new  *)
(* target, gives the same collection of rows whenever no key combination   *)
(* of source contains a NULL (source may have duplicate keys).             *)
C7_IdempotentWithoutNullKeys ==
  (mode = "full_replace" /\ pc = "done" /\ round = 2
     /\ \A kc \in KeysIn(source) : ~ HasNull(kc))
  => result = first

\* Re-application done for a source with a duplicated key and a target row kept.
C7_Witness ==
  /\ mode = "full_replace" /\ pc = "done" /\ round = 2
  /\ \A kc \in KeysIn(source) : ~ HasNull(kc)
  /\ \E kc \in KeysIn(source) : CountKey(source, kc) = 2
  /\ BagCardinality(first.rows) > BagCardinality(source.rows)
  /\ result = first

----------------------------------------------------------------------------
(* C2: with prefer_source_when_null = False every output row comes from a   *)
(* source row and/or a target row of its key, and its value for every data *)
(* column c is source.c if that is non-null and target.c otherwise; every  *)
(* pair of rows the join pairs, and every unpaired row, has such an output *)
(* row.                                                                    *)
DefaultValue(hasS, s, hasT, t, c) ==
  IF hasS /\ s[c] # Null THEN s[c]
  ELSE IF hasT THEN t[c] ELSE Null

DefaultRowOk(o, hasS, s, hasT, t) ==
  /\ \A i \in DOMAIN key_cols :
       o[key_cols[i]] = (IF hasS THEN s[key_cols[i]] ELSE t[key_cols[i]])
  /\ \A c \in data_cols : o[c] = DefaultValue(hasS, s, hasT, t, c)

C2_DefaultPolicy ==
  (ColDone /\ ~ prefer_source_when_null) =>
    /\ \A o \in DOMAIN result.rows :
         \/ \E s \in DOMAIN source.rows, t \in DOMAIN target.rows :
              Paired(s, t) /\ DefaultRowOk(o, TRUE, s, TRUE, t)
         \/ \E s \in DOMAIN source.rows :
              ~ HasPartner(s, target) /\ DefaultRowOk(o, TRUE, s, FALSE, s)
         \/ \E t \in DOMAIN target.rows :
              ~ HasPartner(t, source) /\ DefaultRowOk(o, FALSE, t, TRUE, t)
    /\ \A s \in DOMAIN source.rows, t \in DOMAIN target.rows :
         Paired(s, t) => \E o \in DOMAIN result.rows : DefaultRowOk(o, TRUE, s, TRUE, t)
    /\ \A s \in DOMAIN source.rows :
         ~ HasPartner(s, target)
           => \E o \in DOMAIN result.rows : DefaultRowOk(o, TRUE, s, FALSE, s)
    /\ \A t \in DOMAIN target.rows :
         ~ HasPartner(t, source)
           => \E o \in DOMAIN result.rows : DefaultRowOk(o, FALSE, t, TRUE, t)

\* target (1, Bob, CA) merged with source (1, Bobby, NULL) gives (1, Bobby, CA).
C2_Witness ==
  /\ ColDone /\ ~ prefer_source_when_null /\ update_cols = {} /\ key_cols = <<"id">>
  /\ [id |-> "1", name |-> "Bob", state |-> "CA"] \in DOMAIN target.rows
  /\ [id |-> "1", name |-> "Bobby", state |-> Null] \in DOMAIN source.rows
  /\ [id |-> "1", name |-> "Bobby", state |-> "CA"] \in DOMAIN result.rows

----------------------------------------------------------------------------
(* C3 as stated: when the key combinations are unique within each input,    *)
(* the result has exactly one row per key combination present in either    *)
(* input, and no other row.                                                *)
C3_AsStated ==
  (ColDone /\ UniqueKeys(source) /\ UniqueKeys(target)) =>
    /\ \A kc \in KeysIn(source) \cup KeysIn(target) : CountKey(result, kc) = 1
    /\ KeysIn(result) \subseteq KeysIn(source) \cup KeysIn(target)

(* C3 amended: when the key combinations are unique within each input, the  *)
(* result has exactly one row per key combination present in either input, *)
(* except that a key combination containing a NULL and present in both     *)
(* inputs has two rows (NULL keys do not join); and no other row.          *)
C3_OneRowPerKey ==
  (ColDone /\ UniqueKeys(source) /\ UniqueKeys(target)) =>
    /\ \A kc \in KeysIn(source) \cup KeysIn(target) :
         CountKey(result, kc) =
           (IF HasNull(kc) /\ kc \in KeysIn(source) /\ kc \in KeysIn(target)
            THEN 2 ELSE 1)
    /\ KeysIn(result) \subseteq KeysIn(source) \cup KeysIn(target)

\* A key present in both inputs joined into one row, next to a key of one side only.
C3_Witness ==
  /\ ColDone /\ UniqueKeys(source) /\ UniqueKeys(target)
  /\ \E kc \in KeysIn(source) \cap KeysIn(target) : ~ HasNull(kc) /\ CountKey(result, kc) = 1
  /\ KeysIn(source) # KeysIn(target)
  /\ BagCardinality(source.rows) + BagCardinality(target.rows) = 3
  /\ BagCardinality(result.rows) = 2

----------------------------------------------------------------------------
(* C4: with prefer_source_when_null = True, every source row has an output  *)
(* row of its key carrying the source's value (null or not) for every data *)
(* column; a target row whose key has no source row has an output row      *)
(* carrying the target's values.                                           *)
C4_PreferSource ==
  (ColDone /\ prefer_source_when_null) =>
    /\ \A s \in DOMAIN source.rows :
         \E o \in DOMAIN result.rows :
           /\ KeyOf(o, key_cols) = KeyOf(s, key_cols)
           /\ \A c \in data_cols : o[c] = s[c]
    /\ \A t \in DOMAIN target.rows :
         KeyOf(t, key_cols) \notin KeysIn(source) =>
           \E o \in DOMAIN result.rows :
             /\ KeyOf(o, key_cols) = KeyOf(t, key_cols)
             /\ \A c \in data_cols : o[c] = t[c]

----------------------------------------------------------------------------
(* C5: a source row whose key combination is absent from target appears in  *)
(* the output with its own values for the data columns, under both values  *)
(* of prefer_source_when_null and also when its first key column is NULL.  *)
C5_NewRowInserted ==
  ColDone =>
    \A s \in DOMAIN source.rows :
      KeyOf(s, key_cols) \notin KeysIn(target) =>
        \E o \in DOMAIN result.rows :
          /\ KeyOf(o, key_cols) = KeyOf(s, key_cols)
          /\ \A c \in data_cols : o[c] = s[c]

----------------------------------------------------------------------------
(* C6: with update_cols = ["name"] on relations that both have a state      *)
(* column, every matched key has an output row whose state is the target's *)
(* state.                                                                  *)
C6_StateKept ==
  (ColDone /\ update_cols = {"name"}
     /\ "state" \in source.cols /\ "state" \in target.cols) =>
    \A s \in DOMAIN source.rows, t \in DOMAIN target.rows :
      Paired(s, t) =>
        \E o \in DOMAIN result.rows :
          /\ KeyOf(o, key_cols) = KeyOf(t, key_cols)
          /\ "state" \in DOMAIN o
          /\ o["state"] = t["state"]

----------------------------------------------------------------------------
(* C8: without update_cols, on relations whose non-key columns differ, the  *)
(* merge returns a result (it does not fail) whose columns are key_cols    *)
(* plus every non-key column of either relation.                           *)
C8_UnionSchema ==
  (mode = "column_level" /\ pc \in {"done", "failed"}
     /\ update_cols = {} /\ source.cols # target.cols) =>
    /\ pc = "done"
    /\ result.cols = source.cols \cup target.cols

----------------------------------------------------------------------------
(* C9: the frame add_audit_columns returns has the columns ingest_ts,       *)
(* source_file and record_hash, and the source_file value of every row is  *)
(* the source_file argument.                                               *)
C9_AuditColumns ==
  apc = "returned" =>
    /\ AuditColumns \subseteq Range(out.cols)
    /\ Len(out.rows) = Len(df.rows)
    /\ \A i \in DOMAIN out.rows :
         /\ AuditColumns \subseteq DOMAIN out.rows[i]
         /\ out.rows[i]["source_file"] = PyStr(source_file)

\* Two rows, and an input frame that already had a source_file column holding
\* something else.
C9_Witness ==
  /\ apc = "returned"
  /\ Len(df.rows) = 2
  /\ "source_file" \in Range(df.cols)
  /\ \E i \in DOMAIN df.rows : df.rows[i]["source_file"] # PyStr(source_file)
  /\ \A i \in DOMAIN out.rows : out.rows[i]["source_file"] = PyStr(source_file)

----------------------------------------------------------------------------
(* C10: gold_table never holds two rows with the same record_hash.          *)
C10_GoldHashesUnique ==
  /\ \A r \in DOMAIN gold_table : gold_table[r] = 1
  /\ \A r1, r2 \in DOMAIN gold_table :
       r1.record_hash = r2.record_hash => r1 = r2

====
